---- MODULE Spec2Model ----
(***************************************************************************)
(* k8s-pvc-migrator: the two pivot tools (double_pivot_all.py, the basic   *)
(* variant, and double_pivot_safe.py, the safe variant) and the            *)
(* reference-patching tool (moveStorage.py), run against one namespace of  *)
(* a cluster.  One invocation of a tool runs at a time; every cluster API  *)
(* call and every file operation is one atomic step, and an invocation can *)
(* be interrupted between any two of them.  An API call answers            *)
(* synchronously; it fails only for the reason the cluster state gives     *)
(* (409 on creating a name that exists, 404 on a name that does not).      *)
(***************************************************************************)
EXTENDS Integers, Sequences, FiniteSets, TLC

VARIABLES
    variant,    \* which tool the operator uses: "all", "safe" or "move"
    inv,        \* the volumes of the origin class as they were at the start
    pvc,        \* cluster: volume claims, by name
    pods,       \* cluster: the copy units (pivot pods)
    ctrl,       \* cluster: workload controllers, by uid
    ledger,     \* file double_pivot_metadata.json: NoFile or a list of records
    scaleFile,  \* file workload_scale_backup.json: NoFile or uid -> entry
    proc,       \* the running (or last) invocation of the tool
    runs,       \* invocations started so far
    stops,      \* invocations interrupted so far
    hist,       \* history: what the tool did to data and controllers
    snaps,      \* cluster: volume snapshots, by name
    manifests,  \* directory manifests/: exported pod manifests, post-migrate.sh
    faults      \* API errors the cluster will still answer a quiescence call with

vars == <<variant, inv, pvc, pods, ctrl, ledger, scaleFile, proc, runs, stops, hist,
          snaps, manifests, faults>>

\* The objects of the cluster and their specs.
cluster == <<pvc, pods, ctrl, snaps>>

----------------------------------------------------------------------------
(* Bounds of the model. *)

NumVols == 2
MaxRuns == 3
MaxStops == 1
MaxMoveRuns == 1
MaxFaults == 1
MaxReplicas == 2

(* Program constants. *)
TruncLen == 20

----------------------------------------------------------------------------
(* Names.  A name is a sequence of one-character strings, so that the      *)
(* slicing and sanitising the tools do on names can be computed.           *)

AllVolNames == << <<"a">>, <<"d", "-", "s", "-", "0">>, <<"b", ".", "c">>, <<"e">> >>
VolName(k) == AllVolNames[k]
VolNames == {VolName(k) : k \in 1..NumVols}

OriginSc == <<"o", "l", "d">>
TargetSc == <<"N", "_", "s">>

Take(s, n) == SubSeq(s, 1, IF Len(s) < n THEN Len(s) ELSE n)

\* f"{old_name}-temp"
TempName(n) == n \o <<"-", "t", "e", "m", "p">>

\* str.lower() on the characters the model's names use
LowerChar(c) == CASE c = "N" -> "n" [] c = "S" -> "s" [] OTHER -> c
Lower(s) == [i \in 1..Len(s) |-> LowerChar(s[i])]

\* re.sub(r'[^a-z0-9\-]', '', ...)
NameChars == {"a", "b", "c", "d", "e", "m", "n", "o", "l", "p", "s", "t", "0", "1", "-"}
RECURSIVE KeepNameChars(_)
KeepNameChars(s) ==
    IF s = <<>> THEN <<>>
    ELSE (IF Head(s) \in NameChars THEN <<Head(s)>> ELSE <<>>) \o KeepNameChars(Tail(s))

\* str.rstrip('-')
RECURSIVE RStripDash(_)
RStripDash(s) ==
    IF s # <<>> /\ s[Len(s)] = "-" THEN RStripDash(SubSeq(s, 1, Len(s) - 1)) ELSE s

\* double_pivot_all.py: f"{prefix}-{source_pvc[:20]}"
pod_name_all(prefix, source_pvc) == <<prefix, "-">> \o Take(source_pvc, TruncLen)

\* double_pivot_safe.py: sanitize_pod_name
sanitize_pod_name(name, prefix) ==
    <<prefix, "-">> \o RStripDash(Take(KeepNameChars(Lower(name)), TruncLen))

\* moveStorage.py create_new_pvc: target_storage_class.lower().replace('_', '-')
clean_sc(sc) == [i \in 1..Len(sc) |-> IF LowerChar(sc[i]) = "_" THEN "-" ELSE LowerChar(sc[i])]

\* f"{old_pvc.metadata.name}-{clean_sc}"
new_pvc_name(n, sc) == n \o <<"-">> \o clean_sc(sc)

\* f"{pvc_name}-snap"
snapshot_name(n) == n \o <<"-", "s", "n", "a", "p">>

\* moveStorage.py: f"pivot-copy-{source_pvc[:20]}"
pod_name_move(source_pvc) == <<"pivot-copy", "-">> \o Take(source_pvc, TruncLen)

PvcNames == VolNames \cup {TempName(n) : n \in VolNames}
                     \cup {new_pvc_name(n, TargetSc) : n \in VolNames}
SnapNames == {snapshot_name(n) : n \in VolNames}
NoSnap == [exists |-> FALSE]

----------------------------------------------------------------------------
(* Cluster objects. *)

NoPvc == [exists |-> FALSE]
\* A file of the working directory: absent, or present with its JSON content.
NoFile == [exists |-> FALSE, content |-> <<>>]
\* a write that extends the list the ledger file holds instead of replacing it
File_extend(content) == [exists |-> TRUE, content |-> ledger.content \o content]
File(content) == [exists |-> TRUE, content |-> content]

VolSpecs == << [size |-> "10Gi", modes |-> <<"ReadWriteOnce">>],
              [size |-> "20Gi", modes |-> <<"ReadWriteMany">>] >>

\* The namespaces the model starts from: neighbouring volumes differ in size
\* and access modes, and either kind comes first.
Inventories ==
    { [n \in VolNames |->
          VolSpecs[1 + ((first + CHOOSE k \in 1..NumVols : VolName(k) = n) % 2)]]
      : first \in {0} }

\* complete: the volume holds all of the data of the original volume it
\* belongs to (the original itself, its temp copy or its final copy).
NewPvc(sc, size, modes, complete) ==
    [exists |-> TRUE, sc |-> sc, size |-> size, modes |-> modes, complete |-> complete]

\* list_namespaced_persistent_volume_claim filtered by storage class, in the
\* order of the volumes; each item is the VolumeRecord the tool reads from it.
RECURSIVE ListFrom(_, _, _)
ListFrom(P, sc, k) ==
    IF k > NumVols THEN <<>>
    ELSE (IF P[VolName(k)].exists /\ P[VolName(k)].sc = sc
          THEN << [name |-> VolName(k), size |-> P[VolName(k)].size,
                   modes |-> P[VolName(k)].modes] >>
          ELSE <<>>) \o ListFrom(P, sc, k + 1)

list_pvcs_in_storageclass(P, sc) == ListFrom(P, sc, 1)

PodNamed(name) == {p \in pods : p.name = name}

\* str.startswith
StartsWith(s, pre) == Len(s) >= Len(pre) /\ SubSeq(s, 1, Len(pre)) = pre

\* The workload controllers of a namespace that has workloads, by uid: what
\* the API's list calls return for each kind.  claims are the claim names of
\* the pod template's volumes, vct the names of a StatefulSet's
\* volumeClaimTemplates, nodeSelector the keys of the template's selector.
\* A bare pod is listed with them: a pod no controller owns.
Workload(kind, name, replicas, claims, vct, suspend, sel) ==
    [kind |-> kind, name |-> name, exists |-> TRUE, replicas |-> replicas,
     claims |-> claims, vct |-> vct, suspend |-> suspend, nodeSelector |-> sel]

Vct(name, sc) == [name |-> name, sc |-> sc]

Workloads ==
    [u \in {"dep", "rs", "sts", "ds", "cj1", "cj2", "job", "pod"} |->
        CASE u = "dep" -> Workload("Deployment", <<"w">>, MaxReplicas, {VolName(1)}, {}, FALSE, {})
          [] u = "rs"  -> Workload("ReplicaSet", <<"r">>, 1, {VolName(1)}, {}, FALSE, {})
          [] u = "sts" -> Workload("StatefulSet", <<"s">>, MaxReplicas, {},
                                   {Vct(<<"d">>, OriginSc), Vct(<<"l">>, <<"x">>)}, FALSE, {})
          [] u = "ds"  -> Workload("DaemonSet", <<"n">>, 0, {VolName(1)}, {}, FALSE, {"disktype"})
          [] u = "cj1" -> Workload("CronJob", <<"c">>, 0, {VolName(1)}, {}, FALSE, {})
          [] u = "cj2" -> Workload("CronJob", <<"p">>, 0, {VolName(1)}, {}, TRUE, {})
          [] u = "job" -> Workload("Job", <<"j">>, 0, {VolName(1)}, {}, FALSE, {})
          [] u = "pod" -> Workload("Pod", <<"b">>, 0, {VolName(1), <<"k">>}, {}, FALSE, {})]

\* The order in which detect_and_scale_down goes through the kinds.
KindOrder == <<"dep", "rs", "sts", "ds", "cj1", "cj2", "job">>

\* The list calls: the controllers that exist, kind by kind.
ListWorkloads(C) == SelectSeq(KindOrder, LAMBDA u : u \in DOMAIN C /\ C[u].exists)

----------------------------------------------------------------------------
(* The invocation. *)

Idle == [status |-> "idle", recreate |-> FALSE, dry_run |-> FALSE,
         preserve_temp |-> FALSE, set_replica_0 |-> FALSE, pc |-> "none",
         pvcs |-> <<>>, i |-> 0, acc |-> <<>>, failed |-> {},
         backup |-> <<>>,
         prefer_snapshot |-> FALSE, export_pods |-> FALSE, delete_pvc |-> FALSE,
         copy_only |-> FALSE, snapshot |-> <<>>,
         prev |-> <<"none", "none">>]

Running == proc.status = "running"

\* The invocation ends: it ran to its end (completed), it returned early with
\* nothing to do (returned), an exception left main (crashed) or it was
\* interrupted.  The process is gone and its locals with it; of a completed
\* invocation, what it worked on is remembered.
End(p, how) ==
    [Idle EXCEPT !.status = how, !.pc = "end", !.prev = p.prev,
                 !.recreate = p.recreate, !.dry_run = p.dry_run,
                 !.prefer_snapshot = IF how = "completed" THEN p.prefer_snapshot ELSE FALSE,
                 !.export_pods = IF how = "completed" THEN p.export_pods ELSE FALSE,
                 !.delete_pvc = IF how = "completed" THEN p.delete_pvc ELSE FALSE,
                 !.copy_only = IF how = "completed" THEN p.copy_only ELSE FALSE,
                 !.preserve_temp = IF how = "completed" THEN p.preserve_temp ELSE FALSE,
                 !.set_replica_0 = IF how = "completed" THEN p.set_replica_0 ELSE FALSE,
                 !.pvcs = IF how = "completed" THEN p.pvcs ELSE <<>>,
                 !.backup = IF how = "completed" THEN p.backup ELSE <<>>,
                 !.failed = IF how = "completed" THEN p.failed ELSE {}]

\* The namespace and the working directory before the first invocation,
\* but for the ledger file and the API errors to come.
InitCluster ==
    /\ variant \in {"all", "safe", "move"}
    /\ inv \in Inventories
    /\ pvc = [n \in PvcNames |->
                IF n \in VolNames
                THEN NewPvc(OriginSc, inv[n].size, inv[n].modes, TRUE)
                ELSE NoPvc]
    /\ pods = {}
    /\ ctrl = IF variant = "all" THEN <<>> ELSE Workloads
    /\ scaleFile = NoFile
    /\ proc = Idle
    /\ runs = 0
    /\ stops = 0
    /\ snaps = [n \in SnapNames |-> NoSnap]
    /\ manifests = [files |-> {}, script |-> {}]
    /\ hist = [copiedBack |-> [n \in VolNames |-> FALSE],
               scaledFrom |-> [u \in DOMAIN ctrl |-> 0]]

\* A fresh working directory and a cluster whose API answers every call.
Init ==
    /\ InitCluster
    /\ ledger = NoFile
    /\ faults = 0

\* The same, or a ledger file that holds an empty list (json.load gives []),
\* and a cluster that answers up to MaxFaults quiescence calls with an error.
InitWide ==
    /\ InitCluster
    /\ ledger \in {NoFile, File(<<>>)}
    /\ faults = MaxFaults

\* What the last invocation that was no dry run was and how it ended; a dry
\* run in between does not count.
Last == IF proc.status = "idle" \/ proc.dry_run THEN proc.prev
        ELSE <<IF proc.recreate THEN "phase2" ELSE "phase1", proc.status>>

\* The operator starts the tool (parse_args): phase 1, or phase 2 with
\* --recreate, with any combination of the flags the tool has and reads in
\* that phase (--preserve-temp in phase 2 of the basic variant,
\* --set-replica-0 in phase 1 of the safe variant); moveStorage.py has no
\* phases and has --prefer-snapshot, --export-pods, --delete-pvc, --copy-only.
Start ==
    /\ ~Running
    /\ runs < (IF variant = "move" THEN MaxMoveRuns ELSE MaxRuns)
    /\ \E rec \in BOOLEAN, dry \in BOOLEAN, keep \in BOOLEAN, s0 \in BOOLEAN,
          ps \in BOOLEAN, ex \in BOOLEAN, del \in BOOLEAN, co \in BOOLEAN :
          /\ keep => (variant = "all" /\ rec)
          /\ s0 => (variant = "safe" /\ ~rec)
          /\ rec => variant # "move"
          /\ (ps \/ ex \/ del \/ co) => variant = "move"
          /\ proc' = [Idle EXCEPT
                !.status = "running", !.recreate = rec, !.dry_run = dry,
                !.preserve_temp = keep, !.set_replica_0 = s0, !.pc = "start",
                !.prefer_snapshot = ps, !.export_pods = ex, !.delete_pvc = del,
                !.copy_only = co,
                !.prev = Last]
    /\ runs' = runs + 1
    /\ UNCHANGED <<variant, inv, faults, snaps, manifests, pvc, pods, ctrl, ledger, scaleFile, stops, hist>>

\* An external interrupt (SIGINT/SIGKILL) between two steps: the process is
\* gone, the cluster and the files stay as they are.
Interrupt ==
    /\ Running
    /\ stops < MaxStops
    /\ proc' = End(proc, "interrupted")
    /\ stops' = stops + 1
    /\ UNCHANGED <<variant, inv, faults, snaps, manifests, pvc, pods, ctrl, ledger, scaleFile, runs, hist>>

----------------------------------------------------------------------------
(* The cluster runs a copy unit: rsync -a /old/ /new/.  It runs only once  *)
(* both claims it mounts exist.  It ends Succeeded, and the destination    *)
(* then holds all the source holds, or Failed, and the copy is incomplete. *)

PodCanRun(p) == p.phase = "Pending" /\ pvc[p.src].exists /\ pvc[p.dst].exists

PodSucceed ==
    \E p \in pods :
        /\ PodCanRun(p)
        /\ pods' = (pods \ {p}) \cup {[p EXCEPT !.phase = "Succeeded"]}
        /\ pvc' = [pvc EXCEPT ![p.dst].complete = @ \/ pvc[p.src].complete]
        /\ UNCHANGED <<variant, inv, faults, snaps, manifests, ctrl, ledger, scaleFile, proc, runs, stops, hist>>

PodFail ==
    \E p \in pods :
        /\ PodCanRun(p)
        /\ pods' = (pods \ {p}) \cup {[p EXCEPT !.phase = "Failed"]}
        /\ UNCHANGED <<variant, inv, faults, snaps, manifests, pvc, ctrl, ledger, scaleFile, proc, runs, stops, hist>>

\* a teardown that leaves a copy unit that did not succeed
delete_pod_if_succeeded(Pods, name) ==
    Pods \ {p \in Pods : p.name = name /\ p.phase = "Succeeded"}

\* v1.delete_namespaced_pod(pod_name, namespace)
delete_namespaced_pod(Pods, name) == Pods \ {p \in Pods : p.name = name}

\* a delete call that deletes nothing
delete_nothing(P, name) == P

\* v1.delete_namespaced_persistent_volume_claim(name, ns), the volume being
\* there: it is gone when the call returns.
delete_namespaced_persistent_volume_claim(P, name) == [P EXCEPT ![name] = NoPvc]

----------------------------------------------------------------------------
(* double_pivot_all.py, the basic variant. *)

\* create_pvc that requests a fixed size instead of the one it is given
create_pvc_all_size(P, name, storage_class, size, access_modes, dry_run) ==
    IF dry_run THEN [ok |-> TRUE, pvc |-> P]
    ELSE IF P[name].exists THEN [ok |-> FALSE, pvc |-> P]
    ELSE [ok |-> TRUE,
          pvc |-> [P EXCEPT ![name] = NewPvc(storage_class, "10Gi", access_modes, FALSE)]]

\* create_pvc: the create call raises ApiException(409) when the name exists,
\* and nothing catches it (ok = FALSE: the exception leaves main).
create_pvc_all(P, name, storage_class, size, access_modes, dry_run) ==
    IF dry_run THEN [ok |-> TRUE, pvc |-> P]
    ELSE IF P[name].exists THEN [ok |-> FALSE, pvc |-> P]
    ELSE [ok |-> TRUE,
          pvc |-> [P EXCEPT ![name] = NewPvc(storage_class, size, access_modes, FALSE)]]

AllPhase(rec, at) == Running /\ variant = "all" /\ proc.recreate = rec /\ proc.pc = at

Cur == proc.pvcs[proc.i]

\* phase_one: list the origin class; nothing found, nothing to do.
PhaseOne_List ==
    /\ AllPhase(FALSE, "start")
    /\ LET old_pvcs == list_pvcs_in_storageclass(pvc, OriginSc) IN
         proc' = IF old_pvcs = <<>> THEN End(proc, "returned")
                 ELSE [proc EXCEPT !.pvcs = old_pvcs, !.i = 1, !.pc = "create"]
    /\ UNCHANGED <<variant, inv, faults, snaps, manifests, pvc, pods, ctrl, ledger, scaleFile, runs, stops, hist>>

\* phase_one: create_pvc(ns, temp_name, target_sc, size, access_modes, dry_run)
PhaseOne_CreatePvc ==
    /\ AllPhase(FALSE, "create")
    /\ LET r == create_pvc_all(pvc, TempName(Cur.name), TargetSc, Cur.size,
                               Cur.modes, proc.dry_run) IN
         /\ pvc' = r.pvc
         /\ proc' = IF r.ok THEN [proc EXCEPT !.pc = "copy"] ELSE End(proc, "crashed")
    /\ UNCHANGED <<variant, inv, faults, snaps, manifests, pods, ctrl, ledger, scaleFile, runs, stops, hist>>

\* an append that records the size and modes of the first volume found
PhaseOne_Append_first(p) ==
    [p EXCEPT !.acc = Append(@, [old_name |-> Cur.name, temp_name |-> TempName(Cur.name),
                                 size |-> proc.pvcs[1].size,
                                 access_modes |-> proc.pvcs[1].modes]),
              !.i = @ + 1,
              !.pc = IF proc.i = Len(proc.pvcs) THEN "write" ELSE "create"]

\* phase_one after copy_data_with_pod returned: append the pivot record.
PhaseOne_Append(p) ==
    [p EXCEPT !.acc = Append(@, [old_name |-> Cur.name, temp_name |-> TempName(Cur.name),
                                 size |-> Cur.size, access_modes |-> Cur.modes]),
              !.i = @ + 1,
              !.pc = IF proc.i = Len(proc.pvcs) THEN "write" ELSE "create"]

\* copy_data_with_pod, to the creation of the pod; a dry run returns at once.
\* Creating a pod whose name exists raises ApiException(409).
PhaseOne_CreatePod ==
    /\ AllPhase(FALSE, "copy")
    /\ LET pod_name == pod_name_all("pivot1", Cur.name) IN
         IF proc.dry_run
         THEN /\ proc' = PhaseOne_Append(proc)
              /\ pods' = pods
         ELSE IF PodNamed(pod_name) # {}
         THEN /\ proc' = End(proc, "crashed")
              /\ pods' = pods
         ELSE /\ pods' = pods \cup {[name |-> pod_name, src |-> Cur.name,
                                     dst |-> TempName(Cur.name), phase |-> "Pending"]}
              /\ proc' = [proc EXCEPT !.pc = "wait"]
    /\ UNCHANGED <<variant, inv, faults, snaps, manifests, pvc, ctrl, ledger, scaleFile, runs, stops, hist>>

\* copy_data_with_pod, the wait loop: it leaves on Succeeded and on Failed alike.
PhaseOne_Wait ==
    /\ AllPhase(FALSE, "wait")
    /\ \E p \in PodNamed(pod_name_all("pivot1", Cur.name)) :
          /\ p.phase \in {"Succeeded", "Failed"}
          /\ proc' = [proc EXCEPT !.pc = "delpod",
                        !.failed = IF p.phase = "Failed" THEN @ \cup {Cur.name} ELSE @]
    /\ UNCHANGED <<variant, inv, faults, snaps, manifests, pvc, pods, ctrl, ledger, scaleFile, runs, stops, hist>>

\* a copy call that returns and leaves its pod behind
PhaseOne_DeletePod_keep ==
    /\ AllPhase(FALSE, "delpod")
    /\ proc' = PhaseOne_Append(proc)
    /\ UNCHANGED <<variant, inv, faults, snaps, manifests, pvc, pods, ctrl, ledger, scaleFile, runs, stops, hist>>

\* copy_data_with_pod deletes the pod and returns; phase_one appends.
PhaseOne_DeletePod ==
    /\ AllPhase(FALSE, "delpod")
    /\ pods' = delete_namespaced_pod(pods, pod_name_all("pivot1", Cur.name))
    /\ proc' = PhaseOne_Append(proc)
    /\ UNCHANGED <<variant, inv, faults, snaps, manifests, pvc, ctrl, ledger, scaleFile, runs, stops, hist>>

\* phase_one: write the pivot metadata.
PhaseOne_WriteLedger ==
    /\ AllPhase(FALSE, "write")
    /\ ledger' = IF ~proc.dry_run /\ proc.acc # <<>> THEN File(proc.acc) ELSE ledger
    /\ proc' = End(proc, "completed")
    /\ UNCHANGED <<variant, inv, faults, snaps, manifests, pvc, pods, ctrl, scaleFile, runs, stops, hist>>

\* "Please manually delete the old PVC(s) in the cluster": between phase 1
\* and phase 2 the operator deletes originals the ledger records.
OperatorDelete ==
    /\ variant = "all"
    /\ ~Running
    /\ ledger.exists
    /\ \E k \in 1..Len(ledger.content) :
          /\ pvc[ledger.content[k].old_name].exists
          /\ pvc[ledger.content[k].old_name].sc = OriginSc
          /\ pvc' = [pvc EXCEPT ![ledger.content[k].old_name] = NoPvc]
    /\ UNCHANGED <<variant, inv, faults, snaps, manifests, pods, ctrl, ledger, scaleFile, proc, runs, stops, hist>>

\* phase_two: the metadata file must exist and hold records.
PhaseTwo_Load ==
    /\ AllPhase(TRUE, "start")
    /\ proc' = IF ~ledger.exists \/ ledger.content = <<>> THEN End(proc, "returned")
               ELSE [proc EXCEPT !.pvcs = ledger.content, !.i = 1, !.pc = "create"]
    /\ UNCHANGED <<variant, inv, faults, snaps, manifests, pvc, pods, ctrl, ledger, scaleFile, runs, stops, hist>>

\* phase_two: create_pvc(ns, old_name, target_sc, size, access_modes, dry_run)
PhaseTwo_CreatePvc ==
    /\ AllPhase(TRUE, "create")
    /\ LET r == create_pvc_all(pvc, Cur.old_name, TargetSc, Cur.size,
                               Cur.access_modes, proc.dry_run) IN
         /\ pvc' = r.pvc
         /\ proc' = IF r.ok THEN [proc EXCEPT !.pc = "copy"] ELSE End(proc, "crashed")
    /\ UNCHANGED <<variant, inv, faults, snaps, manifests, pods, ctrl, ledger, scaleFile, runs, stops, hist>>

\* copy_data_with_pod(ns, temp_name, old_name, prefix="pivot2")
PhaseTwo_CreatePod ==
    /\ AllPhase(TRUE, "copy")
    /\ LET pod_name == pod_name_all("pivot2", Cur.temp_name) IN
         IF proc.dry_run
         THEN /\ proc' = [proc EXCEPT !.pc = "deltemp"]
              /\ pods' = pods
         ELSE IF PodNamed(pod_name) # {}
         THEN /\ proc' = End(proc, "crashed")
              /\ pods' = pods
         ELSE /\ pods' = pods \cup {[name |-> pod_name, src |-> Cur.temp_name,
                                     dst |-> Cur.old_name, phase |-> "Pending"]}
              /\ proc' = [proc EXCEPT !.pc = "wait"]
    /\ UNCHANGED <<variant, inv, faults, snaps, manifests, pvc, ctrl, ledger, scaleFile, runs, stops, hist>>

\* a wait loop that ends only on Succeeded
PhaseTwo_Wait_succeeded ==
    /\ AllPhase(TRUE, "wait")
    /\ \E p \in PodNamed(pod_name_all("pivot2", Cur.temp_name)) :
          /\ p.phase = "Succeeded"
          /\ proc' = [proc EXCEPT !.pc = "delpod"]
    /\ UNCHANGED <<variant, inv, faults, snaps, manifests, pvc, pods, ctrl, ledger, scaleFile, runs, stops, hist>>

PhaseTwo_Wait ==
    /\ AllPhase(TRUE, "wait")
    /\ \E p \in PodNamed(pod_name_all("pivot2", Cur.temp_name)) :
          /\ p.phase \in {"Succeeded", "Failed"}
          /\ proc' = [proc EXCEPT !.pc = "delpod",
                        !.failed = IF p.phase = "Failed" THEN @ \cup {Cur.old_name} ELSE @]
    /\ UNCHANGED <<variant, inv, faults, snaps, manifests, pvc, pods, ctrl, ledger, scaleFile, runs, stops, hist>>

\* The return copy of a record is over: what the final volume holds now is
\* what the migration gave it.
NoteCopiedBack(h, n) ==
    IF n \in proc.failed THEN h ELSE [h EXCEPT !.copiedBack[n] = TRUE]

PhaseTwo_DeletePod ==
    /\ AllPhase(TRUE, "delpod")
    /\ pods' = delete_namespaced_pod(pods, pod_name_all("pivot2", Cur.temp_name))
    /\ proc' = [proc EXCEPT !.pc = "deltemp"]
    /\ hist' = NoteCopiedBack(hist, Cur.old_name)
    /\ UNCHANGED <<variant, inv, faults, snaps, manifests, pvc, ctrl, ledger, scaleFile, runs, stops>>

\* phase_two: delete the temp volume unless --preserve-temp; deleting a
\* volume that does not exist raises ApiException(404).
PhaseTwo_DeleteTemp ==
    /\ AllPhase(TRUE, "deltemp")
    /\ LET next == [proc EXCEPT !.i = @ + 1,
                      !.pc = IF proc.i = Len(proc.pvcs) THEN "cleanup" ELSE "create"] IN
         IF proc.preserve_temp \/ proc.dry_run
         THEN /\ pvc' = pvc
              /\ proc' = next
         ELSE IF ~pvc[Cur.temp_name].exists
         THEN /\ pvc' = pvc
              /\ proc' = End(proc, "crashed")
         ELSE /\ pvc' = delete_namespaced_persistent_volume_claim(pvc, Cur.temp_name)
              /\ proc' = next
    /\ UNCHANGED <<variant, inv, faults, snaps, manifests, pods, ctrl, ledger, scaleFile, runs, stops, hist>>

\* phase_two: os.remove(meta_path)
PhaseTwo_RemoveLedger ==
    /\ AllPhase(TRUE, "cleanup")
    /\ ledger' = IF proc.dry_run THEN ledger ELSE NoFile
    /\ proc' = End(proc, "completed")
    /\ UNCHANGED <<variant, inv, faults, snaps, manifests, pvc, pods, ctrl, scaleFile, runs, stops, hist>>

AllNext ==
    \/ PhaseOne_List \/ PhaseOne_CreatePvc \/ PhaseOne_CreatePod \/ PhaseOne_Wait
    \/ PhaseOne_DeletePod \/ PhaseOne_WriteLedger \/ OperatorDelete
    \/ PhaseTwo_Load \/ PhaseTwo_CreatePvc \/ PhaseTwo_CreatePod \/ PhaseTwo_Wait
    \/ PhaseTwo_DeletePod \/ PhaseTwo_DeleteTemp \/ PhaseTwo_RemoveLedger

----------------------------------------------------------------------------
(* double_pivot_safe.py, the safe variant. *)

\* create_pvc without the dry-run guard
create_pvc_safe_nodry(P, name, storage_class, size, access_modes, dry_run) ==
    IF P[name].exists THEN [ok |-> TRUE, pvc |-> P]
    ELSE [ok |-> TRUE,
          pvc |-> [P EXCEPT ![name] = NewPvc(storage_class, size, access_modes, FALSE)]]

\* create_pvc: ApiException(409) is caught, the volume that exists is kept.
create_pvc_safe(P, name, storage_class, size, access_modes, dry_run) ==
    IF dry_run THEN [ok |-> TRUE, pvc |-> P]
    ELSE IF P[name].exists THEN [ok |-> TRUE, pvc |-> P]
    ELSE [ok |-> TRUE,
          pvc |-> [P EXCEPT ![name] = NewPvc(storage_class, size, access_modes, FALSE)]]

\* main, the branch on args.recreate, and where the invocation is in it.
SafePhase(rec, at) == Running /\ variant = "safe" /\ proc.recreate = rec /\ proc.pc = at

pvc_names == {proc.pvcs[k].name : k \in 1..Len(proc.pvcs)}

\* detect_and_scale_down.match_pvc_template: a volume of the pod template
\* (of the job template, for a CronJob) claims one of the names.
match_pvc_template(w, names) == \E v \in w.claims : v \in names

\* detect_and_scale_down, the match of a StatefulSet: a name generated from a
\* claim template, "<template>-<statefulset>-<ordinal>", or a template volume.
match_stateful_set(w, names) ==
    \/ \E n \in names, t \in w.vct : StartsWith(n, t.name \o <<"-">> \o w.name \o <<"-">>)
    \/ \E v \in w.claims : v \in names

Matches(w, names) ==
    IF w.kind = "StatefulSet" THEN match_stateful_set(w, names)
    ELSE match_pvc_template(w, names)

\* The prior state detect_and_scale_down records for a controller.
BackupValue(w) ==
    CASE w.kind \in {"Deployment", "ReplicaSet", "StatefulSet"} -> w.replicas
      [] w.kind = "DaemonSet" -> "patched"
      [] w.kind = "CronJob" -> TRUE
      [] w.kind = "Job" -> "deleted"

\* The mutating call detect_and_scale_down makes for a matching controller.
ScaleDownCall(w) ==
    CASE w.kind \in {"Deployment", "ReplicaSet", "StatefulSet"} ->
            IF w.replicas > 0 THEN [w EXCEPT !.replicas = 0] ELSE w
      [] w.kind = "DaemonSet" ->
            [w EXCEPT !.nodeSelector = @ \cup {"migration-paused"}]
      [] w.kind = "CronJob" -> [w EXCEPT !.suspend = TRUE]
      [] w.kind = "Job" -> [w EXCEPT !.exists = FALSE]

\* detect_and_scale_down, the loops over the lists, from the k-th controller
\* on: for each controller that matches, the mutating call (unless dry run)
\* and the entry of replicas_backup.  Gives the controllers, the backup and
\* the replica counts the tool took away.
RECURSIVE ScaleDownFrom(_, _, _, _, _, _, _)
ScaleDownFrom(k, scan, snap, names, dry_run, C, out) ==
    IF k > Len(scan) THEN [ctrl |-> C, backup |-> out.backup, scaled |-> out.scaled]
    ELSE LET u == scan[k]
             w == snap[u]
             hit == Matches(w, names)
             took == hit /\ ~dry_run /\ ScaleDownCall(w) # w
                        /\ w.kind \in {"Deployment", "ReplicaSet", "StatefulSet"}
         IN ScaleDownFrom(k + 1, scan, snap, names, dry_run,
                IF hit /\ ~dry_run THEN [C EXCEPT ![u] = ScaleDownCall(w)] ELSE C,
                [backup |-> IF hit
                            THEN Append(out.backup, [uid |-> u, kind |-> w.kind,
                                            name |-> w.name, value |-> BackupValue(w)])
                            ELSE out.backup,
                 scaled |-> IF took THEN [out.scaled EXCEPT ![u] = w.replicas]
                            ELSE out.scaled])

\* main, phase 1: list the origin class; nothing found, nothing to do.
SafeP1_List ==
    /\ SafePhase(FALSE, "start")
    /\ LET pvcs == list_pvcs_in_storageclass(pvc, OriginSc) IN
         proc' = IF pvcs = <<>> THEN End(proc, "returned")
                 ELSE [proc EXCEPT !.pvcs = pvcs, !.i = 1,
                         !.pc = IF proc.set_replica_0 THEN "scale" ELSE "create"]
    /\ UNCHANGED <<variant, inv, faults, snaps, manifests, pvc, pods, ctrl, ledger, scaleFile, runs, stops, hist>>

\* detect_and_scale_down: the controllers of the scan, by position, for which
\* the loops send a patch or delete call.
ScaleDownCalls(scan, snap, names, dry_run) ==
    {k \in 1..Len(scan) :
        /\ Matches(snap[scan[k]], names) /\ ~dry_run
        /\ snap[scan[k]].kind \in {"Deployment", "ReplicaSet", "StatefulSet"}
              => snap[scan[k]].replicas > 0}

\* detect_and_scale_down, from the list calls to the end of the loops.  No
\* call is in a try block: when the cluster answers the call for the f-th
\* controller with an error, the controllers before it are done, the
\* exception leaves the function and main, and nothing is written.
SafeP1_ScaleDown ==
    /\ SafePhase(FALSE, "scale")
    /\ LET scan == ListWorkloads(ctrl)
           calls == ScaleDownCalls(scan, ctrl, pvc_names, proc.dry_run)
       IN \E f \in {0} \cup (IF faults > 0 THEN calls ELSE {}) :
            LET upto == IF f = 0 THEN scan ELSE SubSeq(scan, 1, f - 1)
                r == ScaleDownFrom(1, upto, ctrl, pvc_names, proc.dry_run,
                                   ctrl, [backup |-> <<>>, scaled |-> hist.scaledFrom])
            IN
              /\ ctrl' = r.ctrl
              /\ hist' = [hist EXCEPT !.scaledFrom = r.scaled]
              /\ proc' = IF f = 0 THEN [proc EXCEPT !.backup = r.backup, !.pc = "writescale"]
                         ELSE End(proc, "crashed")
              /\ faults' = IF f = 0 THEN faults ELSE faults - 1
    /\ UNCHANGED <<variant, inv, snaps, manifests, pvc, pods, ledger, scaleFile, runs, stops>>

\* detect_and_scale_down: json.dump(replicas_backup) to the scale-state file.
SafeP1_WriteScale ==
    /\ SafePhase(FALSE, "writescale")
    /\ scaleFile' = IF proc.dry_run THEN scaleFile ELSE File(proc.backup)
    /\ proc' = [proc EXCEPT !.pc = "create"]
    /\ UNCHANGED <<variant, inv, faults, snaps, manifests, pvc, pods, ctrl, ledger, runs, stops, hist>>

\* main: create_pvc(ns, temp_name, args.target_sc, size, modes, args.dry_run)
SafeP1_CreatePvc ==
    /\ SafePhase(FALSE, "create")
    /\ LET r == create_pvc_safe(pvc, TempName(Cur.name), TargetSc, Cur.size,
                                Cur.modes, proc.dry_run) IN
         /\ pvc' = r.pvc
         /\ proc' = IF r.ok THEN [proc EXCEPT !.pc = "copy"] ELSE End(proc, "crashed")
    /\ UNCHANGED <<variant, inv, faults, snaps, manifests, pods, ctrl, ledger, scaleFile, runs, stops, hist>>

\* main after copy_data returned: append the record to metadata.
SafeP1_Append(p) ==
    [p EXCEPT !.acc = Append(@, [old_name |-> Cur.name, temp_name |-> TempName(Cur.name),
                                 size |-> Cur.size, modes |-> Cur.modes]),
              !.i = @ + 1,
              !.pc = IF proc.i = Len(proc.pvcs) THEN "write" ELSE "create"]

\* copy_data, to the creation of the pod; a dry run returns at once.
SafeP1_CreatePod ==
    /\ SafePhase(FALSE, "copy")
    /\ LET pod_name == sanitize_pod_name(Cur.name, "pivot1") IN
         IF proc.dry_run
         THEN /\ proc' = SafeP1_Append(proc)
              /\ pods' = pods
         ELSE IF PodNamed(pod_name) # {}
         THEN /\ proc' = End(proc, "crashed")
              /\ pods' = pods
         ELSE /\ pods' = pods \cup {[name |-> pod_name, src |-> Cur.name,
                                     dst |-> TempName(Cur.name), phase |-> "Pending"]}
              /\ proc' = [proc EXCEPT !.pc = "wait"]
    /\ UNCHANGED <<variant, inv, faults, snaps, manifests, pvc, ctrl, ledger, scaleFile, runs, stops, hist>>

\* copy_data, the wait loop: the phase it ends on is not looked at again.
SafeP1_Wait ==
    /\ SafePhase(FALSE, "wait")
    /\ \E p \in PodNamed(sanitize_pod_name(Cur.name, "pivot1")) :
          /\ p.phase \in {"Succeeded", "Failed"}
          /\ proc' = [proc EXCEPT !.pc = "delpod",
                        !.failed = IF p.phase = "Failed" THEN @ \cup {Cur.name} ELSE @]
    /\ UNCHANGED <<variant, inv, faults, snaps, manifests, pvc, pods, ctrl, ledger, scaleFile, runs, stops, hist>>

\* a phase 1 that moves: it deletes the original once its copy was torn down
SafeP1_DeletePod_move ==
    /\ SafePhase(FALSE, "delpod")
    /\ pods' = delete_namespaced_pod(pods, sanitize_pod_name(Cur.name, "pivot1"))
    /\ pvc' = IF proc.dry_run THEN pvc
              ELSE delete_namespaced_persistent_volume_claim(pvc, Cur.name)
    /\ proc' = SafeP1_Append(proc)
    /\ UNCHANGED <<variant, inv, faults, snaps, manifests, ctrl, ledger, scaleFile, runs, stops, hist>>

SafeP1_DeletePod ==
    /\ SafePhase(FALSE, "delpod")
    /\ pods' = delete_namespaced_pod(pods, sanitize_pod_name(Cur.name, "pivot1"))
    /\ proc' = SafeP1_Append(proc)
    /\ UNCHANGED <<variant, inv, faults, snaps, manifests, pvc, ctrl, ledger, scaleFile, runs, stops, hist>>

\* main: json.dump(metadata) to the ledger, unless dry run.
SafeP1_WriteLedger ==
    /\ SafePhase(FALSE, "write")
    /\ ledger' = IF proc.dry_run THEN ledger ELSE File(proc.acc)
    /\ proc' = End(proc, "completed")
    /\ UNCHANGED <<variant, inv, faults, snaps, manifests, pvc, pods, ctrl, scaleFile, runs, stops, hist>>

SafeP1Next ==
    \/ SafeP1_List \/ SafeP1_ScaleDown \/ SafeP1_WriteScale \/ SafeP1_CreatePvc
    \/ SafeP1_CreatePod \/ SafeP1_Wait \/ SafeP1_DeletePod \/ SafeP1_WriteLedger

----------------------------------------------------------------------------
(* double_pivot_safe.py, phase 2 (--recreate). *)

\* The patch scale_back_up sends for an entry of the scale-state file.
RestoreCall(w, e) ==
    CASE e.kind \in {"Deployment", "ReplicaSet", "StatefulSet"} ->
            [w EXCEPT !.replicas = e.value]
      [] e.kind = "DaemonSet" -> [w EXCEPT !.nodeSelector = {}]
      [] e.kind = "CronJob" -> [w EXCEPT !.suspend = FALSE]
      [] e.kind = "Job" -> w

\* a phase 2 that restores the controllers on entry, before its loop
SafeP2_Load_restorefirst ==
    /\ SafePhase(TRUE, "start")
    /\ proc' = IF ~ledger.exists THEN End(proc, "returned")
               ELSE [proc EXCEPT !.pvcs = ledger.content, !.i = 1, !.pc = "restore"]
    /\ UNCHANGED <<variant, inv, faults, snaps, manifests, pvc, pods, ctrl, ledger, scaleFile, runs, stops, hist>>

\* main, phase 2: the ledger must exist; its records are loaded.
SafeP2_Load ==
    /\ SafePhase(TRUE, "start")
    /\ proc' = IF ~ledger.exists THEN End(proc, "returned")
               ELSE [proc EXCEPT !.pvcs = ledger.content, !.i = 1,
                       !.pc = IF ledger.content = <<>> THEN "restore" ELSE "delorig"]
    /\ UNCHANGED <<variant, inv, faults, snaps, manifests, pvc, pods, ctrl, ledger, scaleFile, runs, stops, hist>>

\* main: delete the volume named old_name (unless dry run); an ApiException
\* (the volume is gone already) is caught and printed.
SafeP2_DeleteOrig ==
    /\ SafePhase(TRUE, "delorig")
    /\ pvc' = IF ~proc.dry_run /\ pvc[Cur.old_name].exists
              THEN delete_namespaced_persistent_volume_claim(pvc, Cur.old_name) ELSE pvc
    /\ proc' = [proc EXCEPT !.pc = "create"]
    /\ UNCHANGED <<variant, inv, faults, snaps, manifests, pods, ctrl, ledger, scaleFile, runs, stops, hist>>

\* main: create_pvc(ns, r["old_name"], args.target_sc, r["size"], r["modes"], ...)
SafeP2_CreatePvc ==
    /\ SafePhase(TRUE, "create")
    /\ LET r == create_pvc_safe(pvc, Cur.old_name, TargetSc, Cur.size,
                                Cur.modes, proc.dry_run) IN
         /\ pvc' = r.pvc
         /\ proc' = IF r.ok THEN [proc EXCEPT !.pc = "copy"] ELSE End(proc, "crashed")
    /\ UNCHANGED <<variant, inv, faults, snaps, manifests, pods, ctrl, ledger, scaleFile, runs, stops, hist>>

\* a return copy that is started and not waited for
SafeP2_CreatePod_nowait ==
    /\ SafePhase(TRUE, "copy")
    /\ LET pod_name == sanitize_pod_name(Cur.temp_name, "pivot2") IN
         IF proc.dry_run
         THEN /\ proc' = [proc EXCEPT !.pc = "deltemp"]
              /\ pods' = pods
         ELSE IF PodNamed(pod_name) # {}
         THEN /\ proc' = End(proc, "crashed")
              /\ pods' = pods
         ELSE /\ pods' = pods \cup {[name |-> pod_name, src |-> Cur.temp_name,
                                     dst |-> Cur.old_name, phase |-> "Pending"]}
              /\ proc' = [proc EXCEPT !.pc = "deltemp"]
    /\ UNCHANGED <<variant, inv, faults, snaps, manifests, pvc, ctrl, ledger, scaleFile, runs, stops, hist>>

\* copy_data(ns, r["temp_name"], r["old_name"], prefix="pivot2", ...)
SafeP2_CreatePod ==
    /\ SafePhase(TRUE, "copy")
    /\ LET pod_name == sanitize_pod_name(Cur.temp_name, "pivot2") IN
         IF proc.dry_run
         THEN /\ proc' = [proc EXCEPT !.pc = "deltemp"]
              /\ pods' = pods
         ELSE IF PodNamed(pod_name) # {}
         THEN /\ proc' = End(proc, "crashed")
              /\ pods' = pods
         ELSE /\ pods' = pods \cup {[name |-> pod_name, src |-> Cur.temp_name,
                                     dst |-> Cur.old_name, phase |-> "Pending"]}
              /\ proc' = [proc EXCEPT !.pc = "wait"]
    /\ UNCHANGED <<variant, inv, faults, snaps, manifests, pvc, ctrl, ledger, scaleFile, runs, stops, hist>>

SafeP2_Wait ==
    /\ SafePhase(TRUE, "wait")
    /\ \E p \in PodNamed(sanitize_pod_name(Cur.temp_name, "pivot2")) :
          /\ p.phase \in {"Succeeded", "Failed"}
          /\ proc' = [proc EXCEPT !.pc = "delpod",
                        !.failed = IF p.phase = "Failed" THEN @ \cup {Cur.old_name} ELSE @]
    /\ UNCHANGED <<variant, inv, faults, snaps, manifests, pvc, pods, ctrl, ledger, scaleFile, runs, stops, hist>>

SafeP2_DeletePod ==
    /\ SafePhase(TRUE, "delpod")
    /\ pods' = delete_namespaced_pod(pods, sanitize_pod_name(Cur.temp_name, "pivot2"))
    /\ proc' = [proc EXCEPT !.pc = "deltemp"]
    /\ hist' = NoteCopiedBack(hist, Cur.old_name)
    /\ UNCHANGED <<variant, inv, faults, snaps, manifests, pvc, ctrl, ledger, scaleFile, runs, stops>>

\* main: delete the temp volume (unless dry run); an ApiException is caught.
SafeP2_DeleteTemp ==
    /\ SafePhase(TRUE, "deltemp")
    /\ pvc' = IF ~proc.dry_run /\ pvc[Cur.temp_name].exists
              THEN delete_namespaced_persistent_volume_claim(pvc, Cur.temp_name) ELSE pvc
    /\ proc' = [proc EXCEPT !.i = @ + 1,
                  !.pc = IF proc.i = Len(proc.pvcs) THEN "restore" ELSE "delorig"]
    /\ UNCHANGED <<variant, inv, faults, snaps, manifests, pods, ctrl, ledger, scaleFile, runs, stops, hist>>

\* scale_back_up, the loop over the entries of the file, from the k-th on:
\* the patch by kind and name (unless dry run); a Job is only reported.
\* Patching a controller that does not exist raises ApiException(404).
RECURSIVE RestoreFrom(_, _, _, _)
RestoreFrom(k, backups, dry_run, C) ==
    IF k > Len(backups) THEN [ok |-> TRUE, ctrl |-> C]
    ELSE LET e == backups[k] IN
         IF dry_run \/ e.kind = "Job" THEN RestoreFrom(k + 1, backups, dry_run, C)
         ELSE IF ~C[e.uid].exists THEN [ok |-> FALSE, ctrl |-> C]
         ELSE RestoreFrom(k + 1, backups, dry_run, [C EXCEPT ![e.uid] = RestoreCall(@, e)])

\* scale_back_up, to the end of its loop: without a scale-state file there
\* is nothing to restore.
SafeP2_Restore ==
    /\ SafePhase(TRUE, "restore")
    /\ IF ~scaleFile.exists
       THEN /\ ctrl' = ctrl
            /\ proc' = [proc EXCEPT !.pc = "cleanup"]
       ELSE LET r == RestoreFrom(1, scaleFile.content, proc.dry_run, ctrl) IN
            /\ ctrl' = r.ctrl
            /\ proc' = IF r.ok
                       THEN [proc EXCEPT !.backup = scaleFile.content, !.pc = "rmscale"]
                       ELSE End(proc, "crashed")
    /\ UNCHANGED <<variant, inv, faults, snaps, manifests, pvc, pods, ledger, scaleFile, runs, stops, hist>>

\* scale_back_up: os.remove(SCALE_TRACK_FILE)
SafeP2_RemoveScale ==
    /\ SafePhase(TRUE, "rmscale")
    /\ scaleFile' = IF proc.dry_run THEN scaleFile ELSE NoFile
    /\ proc' = [proc EXCEPT !.pc = "cleanup"]
    /\ UNCHANGED <<variant, inv, faults, snaps, manifests, pvc, pods, ctrl, ledger, runs, stops, hist>>

\* a cleanup that removes the ledger in a dry run too
SafeP2_RemoveLedger_always ==
    /\ SafePhase(TRUE, "cleanup")
    /\ ledger' = NoFile
    /\ proc' = End(proc, "completed")
    /\ UNCHANGED <<variant, inv, faults, snaps, manifests, pvc, pods, ctrl, scaleFile, runs, stops, hist>>

\* main: os.remove(DEFAULT_METADATA_FILE)
SafeP2_RemoveLedger ==
    /\ SafePhase(TRUE, "cleanup")
    /\ ledger' = IF proc.dry_run THEN ledger ELSE NoFile
    /\ proc' = End(proc, "completed")
    /\ UNCHANGED <<variant, inv, faults, snaps, manifests, pvc, pods, ctrl, scaleFile, runs, stops, hist>>

SafeP2Next ==
    \/ SafeP2_Load \/ SafeP2_DeleteOrig \/ SafeP2_CreatePvc \/ SafeP2_CreatePod
    \/ SafeP2_Wait \/ SafeP2_DeletePod \/ SafeP2_DeleteTemp
    \/ SafeP2_Restore \/ SafeP2_RemoveScale \/ SafeP2_RemoveLedger

----------------------------------------------------------------------------
(* moveStorage.py, the reference-patching tool. *)

MovePhase(at) == Running /\ variant = "move" /\ proc.pc = at

\* main, the end of the loop body: the next volume, or the summary.
MoveAdvance(p) ==
    IF p.i = Len(p.pvcs) THEN End(p, "completed")
    ELSE [p EXCEPT !.i = @ + 1, !.snapshot = <<>>, !.pc = "snap"]

\* The module's top level rewrites post-migrate.sh; main lists the origin
\* class; nothing found, nothing to do.
Move_List ==
    /\ MovePhase("start")
    /\ manifests' = [manifests EXCEPT !.script = {}]
    /\ LET pvcs == list_pvcs_in_storageclass(pvc, OriginSc) IN
         proc' = IF pvcs = <<>> THEN End(proc, "returned")
                 ELSE [proc EXCEPT !.pvcs = pvcs, !.i = 1, !.pc = "snap"]
    /\ UNCHANGED <<variant, inv, faults, snaps, pvc, pods, ctrl, ledger, scaleFile, runs, stops, hist>>

\* main with --prefer-snapshot: get_snapshot_class_for_storage_class finds a
\* class or none (a failure of the probe is caught and gives none); with a
\* class, create_volume_snapshot creates the snapshot, or names it in a dry
\* run.  The create call is in no try block: a snapshot of that name (409) or
\* any other error answer of the cluster ends the run.
Move_Snapshot ==
    /\ MovePhase("snap")
    /\ \E found \in BOOLEAN, err \in {FALSE} \cup {faults > 0} :
         IF ~proc.prefer_snapshot \/ ~found
         THEN /\ snaps' = snaps
              /\ faults' = faults
              /\ proc' = [proc EXCEPT !.pc = "newpvc"]
         ELSE IF proc.dry_run
         THEN /\ snaps' = snaps
              /\ faults' = faults
              /\ proc' = [proc EXCEPT !.snapshot = snapshot_name(Cur.name), !.pc = "newpvc"]
         ELSE IF snaps[snapshot_name(Cur.name)].exists \/ err
         THEN /\ snaps' = snaps
              /\ faults' = IF err THEN faults - 1 ELSE faults
              /\ proc' = End(proc, "crashed")
         ELSE /\ snaps' = [snaps EXCEPT ![snapshot_name(Cur.name)] =
                              [exists |-> TRUE, ready |-> FALSE,
                               complete |-> pvc[Cur.name].exists /\ pvc[Cur.name].complete]]
              /\ faults' = faults
              /\ proc' = [proc EXCEPT !.snapshot = snapshot_name(Cur.name), !.pc = "snapwait"]
    /\ UNCHANGED <<variant, inv, manifests, pvc, pods, ctrl, ledger, scaleFile, runs, stops, hist>>

\* The cluster's snapshot controller makes a snapshot ready to use.
SnapshotReady ==
    \E n \in SnapNames :
        /\ snaps[n].exists /\ ~snaps[n].ready
        /\ snaps' = [snaps EXCEPT ![n].ready = TRUE]
        /\ UNCHANGED <<variant, inv, faults, manifests, pvc, pods, ctrl, ledger, scaleFile, proc,
                       runs, stops, hist>>

\* create_volume_snapshot, the wait loop: until readyToUse.
Move_SnapshotWait ==
    /\ MovePhase("snapwait")
    /\ snaps[proc.snapshot].ready
    /\ proc' = [proc EXCEPT !.pc = "newpvc"]
    /\ UNCHANGED <<variant, inv, faults, snaps, manifests, pvc, pods, ctrl, ledger, scaleFile,
                   runs, stops, hist>>

\* create_new_pvc: the new volume, sourced from the snapshot when there is
\* one; the create call raises ApiException(409) when the name exists.
create_new_pvc(P, old_pvc, target_storage_class, dry_run, snap) ==
    LET name == new_pvc_name(old_pvc.name, target_storage_class) IN
    IF dry_run THEN [ok |-> TRUE, name |-> name, pvc |-> P]
    ELSE IF P[name].exists THEN [ok |-> FALSE, name |-> name, pvc |-> P]
    ELSE [ok |-> TRUE, name |-> name,
          pvc |-> [P EXCEPT ![name] = NewPvc(target_storage_class, old_pvc.size, old_pvc.modes,
                                             snap # <<>> /\ snaps[snap].complete)]]

\* a main that creates the new volume and goes on to the patch without a copy
Move_CreatePvc_nocopy ==
    /\ MovePhase("newpvc")
    /\ LET r == create_new_pvc(pvc, Cur, TargetSc, proc.dry_run, proc.snapshot) IN
         /\ pvc' = r.pvc
         /\ proc' = IF ~r.ok THEN End(proc, "crashed") ELSE [proc EXCEPT !.pc = "patch"]
    /\ UNCHANGED <<variant, inv, faults, snaps, manifests, pods, ctrl, ledger, scaleFile, runs,
                   stops, hist>>

\* main: create_new_pvc, then the pivot copy unless a snapshot was used.
Move_CreatePvc ==
    /\ MovePhase("newpvc")
    /\ LET r == create_new_pvc(pvc, Cur, TargetSc, proc.dry_run, proc.snapshot) IN
         /\ pvc' = r.pvc
         /\ proc' = IF ~r.ok THEN End(proc, "crashed")
                    ELSE [proc EXCEPT !.pc = IF proc.snapshot # <<>> THEN "patch" ELSE "copy"]
    /\ UNCHANGED <<variant, inv, faults, snaps, manifests, pods, ctrl, ledger, scaleFile, runs,
                   stops, hist>>

\* create_pivot_pod, to the creation of the pod; a dry run returns at once.
Move_CreatePod ==
    /\ MovePhase("copy")
    /\ LET pod_name == pod_name_move(Cur.name) IN
         IF proc.dry_run
         THEN /\ proc' = [proc EXCEPT !.pc = "patch"]
              /\ pods' = pods
         ELSE IF PodNamed(pod_name) # {}
         THEN /\ proc' = End(proc, "crashed")
              /\ pods' = pods
         ELSE /\ pods' = pods \cup {[name |-> pod_name, src |-> Cur.name,
                                     dst |-> new_pvc_name(Cur.name, TargetSc),
                                     phase |-> "Pending"]}
              /\ proc' = [proc EXCEPT !.pc = "wait"]
    /\ UNCHANGED <<variant, inv, faults, snaps, manifests, pvc, ctrl, ledger, scaleFile, runs,
                   stops, hist>>

\* create_pivot_pod, the wait loop.
Move_Wait ==
    /\ MovePhase("wait")
    /\ \E p \in PodNamed(pod_name_move(Cur.name)) :
          /\ p.phase \in {"Succeeded", "Failed"}
          /\ proc' = [proc EXCEPT !.pc = "delpod",
                        !.failed = IF p.phase = "Failed" THEN @ \cup {Cur.name} ELSE @]
    /\ UNCHANGED <<variant, inv, faults, snaps, manifests, pvc, pods, ctrl, ledger, scaleFile,
                   runs, stops, hist>>

\* create_pivot_pod deletes the pod and returns.
Move_DeletePod ==
    /\ MovePhase("delpod")
    /\ pods' = delete_namespaced_pod(pods, pod_name_move(Cur.name))
    /\ proc' = [proc EXCEPT !.pc = "patch"]
    /\ UNCHANGED <<variant, inv, faults, snaps, manifests, pvc, ctrl, ledger, scaleFile, runs,
                   stops, hist>>

\* patch_workload_using_pvc, the patch of one controller: a StatefulSet's
\* claim templates of the old storage class get storage_class_name =
\* new_pvc_name; template volumes that claim the old volume claim the new one.
PatchCall(w, old_name, old_sc, new_name) ==
    [w EXCEPT
        !.vct = IF w.kind = "StatefulSet"
                THEN {IF t.sc = old_sc THEN [t EXCEPT !.sc = new_name] ELSE t : t \in @}
                ELSE @,
        !.claims = IF old_name \in @ THEN (@ \ {old_name}) \cup {new_name} ELSE @]

\* a patch loop that takes bare pods as well
PatchWorkloads_pods(C, old_name, old_sc, new_name, dry_run) ==
    [u \in DOMAIN C |->
        IF ~dry_run /\ C[u].exists
           /\ C[u].kind \in {"Deployment", "StatefulSet", "DaemonSet", "Pod"}
        THEN [C[u] EXCEPT !.claims = IF old_name \in @ THEN (@ \ {old_name}) \cup {new_name}
                                     ELSE @]
        ELSE C[u]]

\* patch_workload_using_pvc, the loop over Deployments, StatefulSets and
\* DaemonSets: nothing is patched in a dry run.
PatchWorkloads(C, old_name, old_sc, new_name, dry_run) ==
    [u \in DOMAIN C |->
        IF ~dry_run /\ C[u].exists /\ C[u].kind \in {"Deployment", "StatefulSet", "DaemonSet"}
        THEN PatchCall(C[u], old_name, old_sc, new_name)
        ELSE C[u]]

\* patch_workload_using_pvc, the pods no controller owns that claim the old
\* volume: the bare pods and the copy units still there, by name.
StandalonePods(C, old_name) ==
    {[name |-> C[u].name, claims |-> C[u].claims] :
        u \in {v \in DOMAIN C : C[v].exists /\ C[v].kind = "Pod" /\ old_name \in C[v].claims}}
    \cup {[name |-> p.name, claims |-> {p.src, p.dst}] :
        p \in {q \in pods : old_name \in {q.src, q.dst}}}

\* export_pod_manifest for each of them: the manifest file of the pod, every
\* claim-backed volume claiming new_pvc_name, and the recipe entry.
ExportPods(M, found, new_name) ==
    [files |-> {f \in M.files : f.pod \notin {q.name : q \in found}}
               \cup {[pod |-> q.name, claims |-> [c \in q.claims |-> new_name]] : q \in found},
     script |-> M.script \cup {q.name : q \in found}]

\* a --copy-only that skips the patching and still goes on to delete_old_pvc
Move_Patch_copyonly_deletes ==
    /\ MovePhase("patch")
    /\ LET new_name == new_pvc_name(Cur.name, TargetSc) IN
         /\ ctrl' = IF proc.copy_only THEN ctrl
                    ELSE PatchWorkloads(ctrl, Cur.name, OriginSc, new_name, proc.dry_run)
         /\ manifests' = IF proc.export_pods /\ ~proc.copy_only
                         THEN ExportPods(manifests, StandalonePods(ctrl, Cur.name), new_name)
                         ELSE manifests
         /\ proc' = [proc EXCEPT !.pc = "delete"]
    /\ UNCHANGED <<variant, inv, faults, snaps, pvc, pods, ledger, scaleFile, runs, stops, hist>>

\* main: unless --copy-only, patch_workload_using_pvc.
Move_Patch ==
    /\ MovePhase("patch")
    /\ LET new_name == new_pvc_name(Cur.name, TargetSc) IN
         IF proc.copy_only
         THEN /\ ctrl' = ctrl
              /\ manifests' = manifests
              /\ proc' = MoveAdvance(proc)
         ELSE /\ ctrl' = PatchWorkloads(ctrl, Cur.name, OriginSc, new_name, proc.dry_run)
              /\ manifests' = IF proc.export_pods
                              THEN ExportPods(manifests, StandalonePods(ctrl, Cur.name), new_name)
                              ELSE manifests
              /\ proc' = [proc EXCEPT !.pc = "delete"]
    /\ UNCHANGED <<variant, inv, faults, snaps, pvc, pods, ledger, scaleFile, runs, stops, hist>>

\* delete_old_pvc: only with --delete-pvc, and not in a dry run; deleting a
\* volume that does not exist raises ApiException(404).
Move_DeleteOld ==
    /\ MovePhase("delete")
    /\ IF ~proc.delete_pvc \/ proc.dry_run
       THEN /\ pvc' = pvc
            /\ proc' = MoveAdvance(proc)
       ELSE IF ~pvc[Cur.name].exists
       THEN /\ pvc' = pvc
            /\ proc' = End(proc, "crashed")
       ELSE /\ pvc' = delete_namespaced_persistent_volume_claim(pvc, Cur.name)
            /\ proc' = MoveAdvance(proc)
    /\ UNCHANGED <<variant, inv, faults, snaps, manifests, pods, ctrl, ledger, scaleFile, runs,
                   stops, hist>>

MoveNext ==
    \/ Move_List \/ Move_Snapshot \/ SnapshotReady \/ Move_SnapshotWait \/ Move_CreatePvc
    \/ Move_CreatePod \/ Move_Wait \/ Move_DeletePod \/ Move_Patch \/ Move_DeleteOld

----------------------------------------------------------------------------
Next ==
    \/ Start \/ Interrupt \/ PodSucceed \/ PodFail
    \/ AllNext \/ SafeP1Next \/ SafeP2Next \/ MoveNext

Spec == Init /\ [][Next]_vars

SpecWide == InitWide /\ [][Next]_vars

\* The two pivot variants alone, with the scheduling the code gives and the
\* one assumption termination rests on: a process that is not stopped takes
\* its next step (every call of the tools is synchronous and the wait loops
\* poll every two seconds), and a copy unit that is waited for ends,
\* Succeeded or Failed.
InitLive == Init /\ variant \in {"all", "safe"}

ToolNext == AllNext \/ SafeP1Next \/ SafeP2Next

NextLive == Start \/ PodSucceed \/ PodFail \/ ToolNext

\* The copy unit the running invocation is waiting for has not ended.
AwaitedPending ==
    /\ Running /\ proc.pc = "wait"
    /\ \E p \in pods :
          /\ p.phase = "Pending"
          /\ p.src = (IF proc.recreate THEN proc.pvcs[proc.i].temp_name
                      ELSE proc.pvcs[proc.i].name)

SpecLive ==
    /\ InitLive /\ [][NextLive]_vars
    /\ WF_vars(ToolNext)
    /\ []<>~AwaitedPending

----------------------------------------------------------------------------
(* Properties of the two pivot variants and of the reference patcher. *)

\* A phase of a pivot variant that was no dry run has run to its end.
PhaseDone(rec) ==
    /\ variant \in {"all", "safe"}
    /\ proc.status = "completed"
    /\ proc.recreate = rec
    /\ ~proc.dry_run

\* The records of the ledger file, none when there is no file.
LedgerRecords == IF ledger.exists THEN {ledger.content[k] : k \in DOMAIN ledger.content} ELSE {}

\* C1: no data loss.  In every state of a migration with the basic or the
\* safe variant, copy units that end Failed included, every original volume
\* has its complete data in a volume that exists now: the original or the
\* recreated final volume (both under the original name), or <original>-temp.
C1_NoDataLoss ==
    variant \in {"all", "safe"} =>
        \A n \in VolNames :
            \E m \in {n, TempName(n)} : pvc[m].exists /\ pvc[m].complete

\* C2: when phase 1 has completed (no dry run), the ledger holds exactly one
\* record for each volume it discovered in the origin class and no other,
\* and <original>-temp exists with the size and access modes of the original.
C2_PhaseOnePost ==
    PhaseDone(FALSE) =>
        /\ ledger.exists
        /\ Len(ledger.content) = Len(proc.pvcs)
        /\ \A k \in DOMAIN proc.pvcs :
              /\ Cardinality({j \in DOMAIN ledger.content :
                                 ledger.content[j].old_name = proc.pvcs[k].name}) = 1
              /\ pvc[TempName(proc.pvcs[k].name)].exists
              /\ pvc[TempName(proc.pvcs[k].name)].size = proc.pvcs[k].size
              /\ pvc[TempName(proc.pvcs[k].name)].modes = proc.pvcs[k].modes
              /\ proc.pvcs[k].size = inv[proc.pvcs[k].name].size
              /\ proc.pvcs[k].modes = inv[proc.pvcs[k].name].modes

\* Phase 1 has completed for every volume of the inventory, volumes of
\* different sizes and access modes among them.
C2_Witness ==
    /\ PhaseDone(FALSE)
    /\ Len(proc.pvcs) = NumVols
    /\ ledger.exists /\ Len(ledger.content) = NumVols
    /\ \A n \in VolNames : pvc[TempName(n)].exists

C4_FailedCopyNotRecorded ==
    PhaseDone(FALSE) =>
        \A r \in LedgerRecords : r.old_name \notin proc.failed

\* C5: a dry run makes no mutating cluster call.  Every step of a dry-run
\* invocation (phase 1, phase 2 or the reference patcher, whatever the other
\* flags) leaves the volumes, the pods, the controllers and the snapshots as
\* they are.
C5_DryRunFrame ==
    [][(Running /\ proc.dry_run /\ proc' # proc) => cluster' = cluster]_vars

\* A dry run of the reference patcher with --prefer-snapshot, --export-pods
\* and --delete-pvc has gone through every volume to its end.
C5_Witness ==
    /\ variant = "move"
    /\ proc.status = "completed"
    /\ proc.dry_run /\ proc.prefer_snapshot /\ proc.export_pods /\ proc.delete_pvc
    /\ ~proc.copy_only
    /\ Len(proc.pvcs) = NumVols

\* C6: phase 1 is idempotent.  A phase 1 that follows a completed phase 1,
\* with no phase 2 in between, does not fail on the temp volumes that are
\* there already: it takes them as created.
C6_PhaseOneTwice ==
    (/\ variant \in {"all", "safe"}
     /\ ~proc.recreate /\ ~proc.dry_run
     /\ proc.prev = <<"phase1", "completed">>)
        => proc.status # "crashed"

\* C7: quiescence and restore are symmetric.  When a phase 2 whose restore
\* pass went through the scale-state file has completed, every Deployment,
\* ReplicaSet and StatefulSet the tool scaled from n > 0 to 0 has n replicas
\* again, and a Job the quiescence pass deleted has not been recreated.
C7_RestoreSymmetry ==
    (PhaseDone(TRUE) /\ variant = "safe" /\ proc.backup # <<>>) =>
        /\ \A u \in {"dep", "rs", "sts"} :
              hist.scaledFrom[u] > 0 => ctrl[u].replicas = hist.scaledFrom[u]
        /\ \A k \in DOMAIN proc.backup :
              proc.backup[k].kind = "Job" => ~ctrl[proc.backup[k].uid].exists

\* C8: round trip.  When phase 2 has completed without --preserve-temp, every
\* volume of its records exists under its name in the target storage class
\* with the size and access modes it had in the origin class, and no
\* <name>-temp volume is left.
C8_RoundTrip ==
    (PhaseDone(TRUE) /\ ~proc.preserve_temp) =>
        \A k \in DOMAIN proc.pvcs :
            LET n == proc.pvcs[k].old_name IN
            /\ n \in VolNames
            /\ pvc[n] = [pvc[n] EXCEPT !.exists = TRUE, !.sc = TargetSc,
                                       !.size = inv[n].size, !.modes = inv[n].modes]
            /\ ~pvc[TempName(n)].exists

\* Phase 1 and then phase 2 have completed for the whole inventory, and the
\* final volumes hold the data of the originals.
C8_Witness ==
    /\ PhaseDone(TRUE)
    /\ ~proc.preserve_temp
    /\ proc.prev = <<"phase1", "completed">>
    /\ Len(proc.pvcs) = NumVols
    /\ \A n \in VolNames : pvc[n].exists /\ pvc[n].sc = TargetSc /\ pvc[n].complete

\* C9: phase 2 can be resumed.  In a phase 2 that follows an interrupted
\* phase 2, every record whose final volume was recreated and copied back
\* keeps that volume: it exists, in the target storage class, with the data
\* the return copy gave it.
C9_PhaseTwoResume ==
    (/\ variant \in {"all", "safe"}
     /\ proc.recreate /\ ~proc.dry_run
     /\ proc.status # "idle"
     /\ proc.prev = <<"phase2", "interrupted">>)
        => \A n \in VolNames :
              hist.copiedBack[n] => pvc[n].exists /\ pvc[n].sc = TargetSc

\* C10: phase 1 can be resumed.  A phase 1 that follows an interrupted
\* phase 1 (a temp volume created, or a copy unit still there) runs to its
\* end: no call of it fails on what the interrupted run left.
C10_PhaseOneResume ==
    (/\ variant \in {"all", "safe"}
     /\ ~proc.recreate /\ ~proc.dry_run
     /\ proc.prev = <<"phase1", "interrupted">>)
        => proc.status # "crashed"

\* C11: phase 2 started when there is no ledger file, or when the file holds
\* an empty list, fails fast.  No step of such an invocation creates, patches
\* or deletes a volume, a pod, a controller or a snapshot, and none removes
\* or rewrites a state file.
C11_NoLedgerNoMutation ==
    [][(/\ Running /\ variant \in {"all", "safe"} /\ proc.recreate
        /\ ~ledger.exists \/ ledger.content = <<>>
        /\ proc' # proc)
          => (cluster' = cluster /\ ledger' = ledger /\ scaleFile' = scaleFile)]_vars

\* C12: per-volume failure isolation.  An API error on a cluster call made
\* for one volume, in the loop of phase 1 or of phase 2, does not end the
\* invocation: the loop goes on with the volumes that remain.
C12_FailureIsolated ==
    [][(/\ Running /\ variant \in {"all", "safe"}
        /\ proc.pc \in {"delorig", "create", "copy", "wait", "delpod", "deltemp"})
          => proc'.status # "crashed"]_vars

\* C13: the prior state of a controller is captured once, before the tool
\* first changes the controller.  Whatever phase-1 invocations ran, every
\* entry of the scale-state file holds the replica count (of a Deployment,
\* ReplicaSet or StatefulSet) or the suspend flag (of a CronJob) that the
\* controller had before the tool touched it.
C13_PriorStateOnce ==
    (variant = "safe" /\ scaleFile.exists) =>
        \A k \in DOMAIN scaleFile.content :
            LET e == scaleFile.content[k] IN
            /\ e.kind \in {"Deployment", "ReplicaSet", "StatefulSet"}
                  => e.value = Workloads[e.uid].replicas
            /\ e.kind = "CronJob" => e.value = Workloads[e.uid].suspend

\* C14: the scale-state file is written before the quiescence mutations.  At
\* every point of the first phase 1 that is no dry run, a controller that is
\* no longer as it was (scaled down, paused, suspended or deleted) has its
\* entry in the scale-state file.
C14_ScaleFileFirst ==
    (/\ variant = "safe" /\ Running /\ ~proc.recreate /\ ~proc.dry_run
     /\ proc.prev = <<"none", "none">>)
        => \A u \in DOMAIN ctrl :
              ctrl[u] # Workloads[u] =>
                  /\ scaleFile.exists
                  /\ \E k \in DOMAIN scaleFile.content : scaleFile.content[k].uid = u

\* C15: at most one live record per original volume name.  In every state,
\* whatever phase-1 and phase-2 invocations ran, no two records of the
\* ledger file have the same old_name.
C15_OneRecordPerName ==
    variant \in {"all", "safe"} =>
        \A j, k \in DOMAIN ledger.content :
            ledger.content[j].old_name = ledger.content[k].old_name => j = k

\* A second phase 1 has completed after a completed phase 1, and the ledger
\* holds the records of the whole inventory.
C15_Witness ==
    /\ PhaseDone(FALSE)
    /\ proc.prev = <<"phase1", "completed">>
    /\ ledger.exists
    /\ {r.old_name : r \in LedgerRecords} = VolNames

\* C16: phase 1 never deletes an original volume.  No step of a phase-1
\* invocation of either pivot variant, its last step included, deletes or
\* changes a volume that is in the origin class.
C16_PhaseOneKeepsOriginals ==
    [][(Running /\ variant \in {"all", "safe"} /\ ~proc.recreate /\ proc' # proc)
          => \A n \in VolNames :
                (pvc[n].exists /\ pvc[n].sc = OriginSc) => pvc'[n] = pvc[n]]_vars

\* Phase 1 has stopped after copying every volume, and every original is
\* still there, in the origin class, next to its filled temp volume.
C16_Witness ==
    /\ PhaseDone(FALSE)
    /\ \A n \in VolNames :
          /\ pvc[n].exists /\ pvc[n].sc = OriginSc
          /\ pvc[TempName(n)].exists /\ pvc[TempName(n)].complete

\* C17: a conflict is idempotent success.  When the tool creates a temp
\* volume (phase 1) or a final volume (phase 2) under a name that exists,
\* the run goes on with the copy step of that volume.
C17_ConflictSwallowed ==
    [][(/\ Running /\ variant \in {"all", "safe"} /\ ~proc.dry_run
        /\ proc.pc = "create"
        /\ pvc[IF proc.recreate THEN Cur.old_name ELSE TempName(Cur.name)].exists
        /\ proc' # proc /\ proc'.status # "interrupted")
          => (proc'.status = "running" /\ proc'.pc = "copy")]_vars

\* C18: phase 2 removes the ledger file only when all of its records
\* succeeded.  When a phase 2 has run to its end and the return copy of one
\* of its records ended Failed, the ledger file is still there.
C18_LedgerKeptOnFailure ==
    (PhaseDone(TRUE) /\ proc.failed # {}) => ledger.exists

\* The name of the copy unit the running tool creates for a volume record.
CopyUnitName(r) ==
    CASE variant = "all" ->
            IF proc.recreate THEN pod_name_all("pivot2", r.temp_name)
            ELSE pod_name_all("pivot1", r.name)
      [] variant = "safe" ->
            IF proc.recreate THEN sanitize_pod_name(r.temp_name, "pivot2")
            ELSE sanitize_pod_name(r.name, "pivot1")
      [] variant = "move" -> pod_name_move(r.name)

\* C19: the copy executor tears its copy unit down.  Once the copy call for
\* a volume has returned (the invocation is past it, or has completed), no
\* copy unit of that volume is in the cluster, whether it ended Succeeded or
\* Failed.
C19_CopyUnitTornDown ==
    (proc.status \in {"running", "completed"} /\ ~proc.dry_run) =>
        \A k \in DOMAIN proc.pvcs :
            (\/ proc.status = "completed"
             \/ k < proc.i
             \/ k = proc.i /\ proc.pc \in {"deltemp", "patch", "delete"})
                => PodNamed(CopyUnitName(proc.pvcs[k])) = {}

\* The return copy of a record has ended Failed, the copy call has returned
\* and its copy unit is gone.
C19_Witness ==
    /\ Running /\ ~proc.dry_run /\ proc.recreate
    /\ proc.pc = "deltemp"
    /\ Cur.old_name \in proc.failed
    /\ pods = {}

\* C20: quiescence is best-effort and independent.  After a first phase 1 in
\* which the cluster answered a quiescence call with an error, at most the
\* one controller of that call is left as it was among the controllers that
\* use a discovered volume, and every controller the tool changed has its
\* prior state in the scale-state file.
C20_QuiescenceBestEffort ==
    (/\ variant = "safe" /\ faults < MaxFaults
     /\ proc.status = "crashed" /\ ~proc.recreate /\ proc.prev = <<"none", "none">>)
        => /\ \A u, v \in {KindOrder[k] : k \in DOMAIN KindOrder} :
                (/\ Matches(Workloads[u], VolNames) /\ ctrl[u] = Workloads[u]
                 /\ ScaleDownCall(Workloads[u]) # Workloads[u]
                 /\ Matches(Workloads[v], VolNames) /\ ctrl[v] = Workloads[v]
                 /\ ScaleDownCall(Workloads[v]) # Workloads[v]) => u = v
           /\ \A u \in DOMAIN ctrl : ctrl[u] # Workloads[u] =>
                /\ scaleFile.exists
                /\ \E k \in DOMAIN scaleFile.content : scaleFile.content[k].uid = u

\* C21: the snapshot fast path falls back.  With --prefer-snapshot, no step
\* of the snapshot attempt for a volume (the probe for a class, the creation
\* of the snapshot, the wait for it) ends the run: the tool goes on with that
\* volume, by the copy executor when it has no snapshot.
C21_SnapshotFallback ==
    [][(/\ MovePhase("snap") \/ MovePhase("snapwait")
        /\ proc.prefer_snapshot
        /\ proc' # proc /\ proc'.status # "interrupted")
          => /\ proc'.status = "running"
             /\ proc'.pc \in {"snapwait", "newpvc"}]_vars

\* C22: copy-only mode.  A step of a moveStorage invocation with --copy-only
\* changes no controller, writes no manifest and no recipe entry, and deletes
\* no volume, whatever --delete-pvc and --export-pods are.
C22_CopyOnlyFrame ==
    [][(Running /\ variant = "move" /\ proc.copy_only /\ proc' # proc)
          => /\ ctrl' = ctrl
             /\ manifests'.files = manifests.files
             /\ manifests'.script \subseteq manifests.script
             /\ \A n \in PvcNames : pvc[n].exists => pvc'[n] = pvc[n]]_vars

\* A run with --copy-only, --delete-pvc and --export-pods, and no dry run,
\* has completed: every original is still there, next to its new volume.
C22_Witness ==
    /\ variant = "move" /\ proc.status = "completed"
    /\ proc.copy_only /\ proc.delete_pvc /\ proc.export_pods /\ ~proc.dry_run
    /\ \A n \in VolNames : pvc[n].exists /\ pvc[new_pvc_name(n, TargetSc)].exists
    /\ ctrl = Workloads

\* C23: the quiescence controller brackets the copy window.  In phase 1 of
\* the safe variant a controller changes only in the quiescence pass, which
\* is before the first volume is handled; in phase 2 a controller changes
\* only when every record of the ledger has been handled and no return copy
\* unit of a record is left.
C23_QuiescenceBrackets ==
    [][(Running /\ variant = "safe" /\ ctrl' # ctrl)
          => IF proc.recreate
             THEN /\ proc.i > Len(proc.pvcs)
                  /\ \A k \in DOMAIN proc.pvcs :
                        PodNamed(sanitize_pod_name(proc.pvcs[k].temp_name, "pivot2")) = {}
             ELSE /\ proc.pc = "scale"
                  /\ proc.i = 1 /\ proc.acc = <<>>]_vars

\* Phase 2 has restored the Deployment that phase 1 scaled down, after the
\* return copies of all records.
C23_Witness ==
    /\ SafePhase(TRUE, "rmscale") /\ ~proc.dry_run
    /\ Len(proc.pvcs) = NumVols
    /\ hist.scaledFrom["dep"] > 0
    /\ ctrl["dep"].replicas = Workloads["dep"].replicas
    /\ \A n \in VolNames : hist.copiedBack[n]

\* C24: the order of the steps of phase 2 for a record.  In a phase 2 that
\* is no dry run: the safe variant deletes an original only in the delete
\* step of its record, and the name is not held by an origin-class volume
\* when the final volume is created; when the return copy unit is created
\* the final volume exists under the original name in the target class; and
\* a temp volume is deleted only in the last step of its record, when its
\* return copy unit has ended (Succeeded or Failed) and is gone.
C24_PhaseTwoOrder ==
    [][(/\ Running /\ variant \in {"all", "safe"} /\ proc.recreate /\ ~proc.dry_run
        /\ proc' # proc)
          => /\ \A n \in VolNames :
                  (pvc[n].exists /\ pvc[n].sc = OriginSc /\ ~pvc'[n].exists)
                      => (proc.pc = "delorig" /\ n = Cur.old_name)
             /\ (variant = "safe" /\ proc.pc = "create")
                  => ~(pvc[Cur.old_name].exists /\ pvc[Cur.old_name].sc = OriginSc)
             /\ pods' \ pods # {}
                  => (pvc[Cur.old_name].exists /\ pvc[Cur.old_name].sc = TargetSc)
             /\ \A n \in VolNames :
                  (pvc[TempName(n)].exists /\ ~pvc'[TempName(n)].exists)
                      => /\ proc.pc = "deltemp" /\ n = Cur.old_name
                         /\ \A p \in pods : p.src # TempName(n)
                         /\ hist.copiedBack[n] \/ n \in proc.failed]_vars

\* Phase 2 of the safe variant has finished its first record: the original
\* was replaced by the final volume, the return copy ran, the temp is gone.
C24_Witness ==
    /\ SafePhase(TRUE, "delorig") /\ ~proc.dry_run /\ proc.i = 2
    /\ pvc[proc.pvcs[1].old_name].exists
    /\ pvc[proc.pvcs[1].old_name].sc = TargetSc
    /\ pvc[proc.pvcs[1].old_name].complete
    /\ ~pvc[proc.pvcs[1].temp_name].exists

\* C25: the order of the steps of the reference patcher for a volume.  A
\* step that changes a controller is the patch step of the current volume,
\* taken when the new volume exists and its copy unit has ended and is gone
\* (or its snapshot is ready); a step that deletes an original is taken only
\* with --delete-pvc, for the current volume, after its patch step: no
\* Deployment, StatefulSet or DaemonSet claims the volume any more.
C25_PatchOrder ==
    [][(Running /\ variant = "move" /\ proc' # proc)
          => /\ ctrl' # ctrl =>
                  /\ proc.pc = "patch"
                  /\ pvc[new_pvc_name(Cur.name, TargetSc)].exists
                  /\ PodNamed(pod_name_move(Cur.name)) = {}
                  /\ IF proc.snapshot # <<>> THEN snaps[proc.snapshot].ready
                     ELSE \/ pvc[new_pvc_name(Cur.name, TargetSc)].complete
                          \/ Cur.name \in proc.failed
             /\ \A n \in VolNames : (pvc[n].exists /\ ~pvc'[n].exists) =>
                  /\ proc.delete_pvc /\ proc.pc = "delete" /\ n = Cur.name
                  /\ \A u \in DOMAIN ctrl :
                        (ctrl[u].exists
                         /\ ctrl[u].kind \in {"Deployment", "StatefulSet", "DaemonSet"})
                            => n \notin ctrl[u].claims]_vars

\* A run with --delete-pvc has completed: the originals are gone and the
\* Deployment claims the new volume of the one it claimed.
C25_Witness ==
    /\ variant = "move" /\ proc.status = "completed"
    /\ proc.delete_pvc /\ ~proc.dry_run /\ ~proc.copy_only
    /\ \A n \in VolNames : ~pvc[n].exists /\ pvc[new_pvc_name(n, TargetSc)].exists
    /\ ctrl["dep"].claims = {new_pvc_name(VolName(1), TargetSc)}

\* C26: the volumes are migrated strictly one after the other.  A step of an
\* invocation creates at most one copy unit, the one of its current volume,
\* and at that moment no copy unit of a volume the invocation handled before
\* is in the cluster.
C26_OneCopyUnit ==
    [][LET created == {p.name : p \in pods'} \ {p.name : p \in pods} IN
       (Running /\ created # {})
          => /\ created = {CopyUnitName(Cur)}
             /\ \A k \in 1..(proc.i - 1) :
                   PodNamed(CopyUnitName(proc.pvcs[k])) = {}]_vars

\* The copy unit of the second volume was created, and it is the only copy
\* unit in the cluster.
C26_Witness ==
    /\ Running /\ ~proc.dry_run /\ proc.i = 2 /\ proc.pc = "wait"
    /\ Cardinality(pods) = 1
    /\ PodNamed(CopyUnitName(Cur)) = pods

\* C27: termination depends only on the copy units.  When every copy unit
\* that is waited for ends, Succeeded or Failed, and the process keeps taking
\* its steps, a running invocation of phase 1 or phase 2 comes to its end;
\* and while the copy unit it waits for has not ended, the invocation takes
\* no step at all: no later volume is handled, there is no timeout.
C27_Termination ==
    /\ Running ~> ~Running
    /\ [][AwaitedPending => proc' = proc]_vars

\* Both phases have come to their end, and every return copy was made.
C27_Witness ==
    /\ PhaseDone(TRUE) /\ ~proc.dry_run
    /\ proc.prev = <<"phase1", "completed">>
    /\ \A n \in VolNames : hist.copiedBack[n]

\* C28: the prior state of a CronJob is its suspend flag, and quiescence
\* followed by restore gives the flag back.  Every CronJob entry of the
\* scale-state file holds the flag the CronJob had before the tool touched
\* it, and when a phase 2 that was no dry run has run to its end every
\* CronJob has that flag again: one that was suspended is still suspended.
C28_CronJobSuspend ==
    variant = "safe" =>
        /\ \A k \in DOMAIN scaleFile.content :
              scaleFile.content[k].kind = "CronJob"
                  => scaleFile.content[k].value = Workloads[scaleFile.content[k].uid].suspend
        /\ (PhaseDone(TRUE) /\ ~proc.dry_run)
              => \A u \in DOMAIN ctrl :
                    ctrl[u].kind = "CronJob" => ctrl[u].suspend = Workloads[u].suspend

\* C29: quiescence followed by restore removes from a DaemonSet only the
\* selector entry the tool added.  When a phase 2 that was no dry run has run
\* to its end, the node selector of every DaemonSet is the one it had before
\* quiescence, with the entries it already had.
C29_DaemonSetSelector ==
    (variant = "safe" /\ PhaseDone(TRUE) /\ ~proc.dry_run)
        => \A u \in DOMAIN ctrl :
              ctrl[u].kind = "DaemonSet" => ctrl[u].nodeSelector = Workloads[u].nodeSelector

\* C30: the reference patcher rewrites the storage class of a StatefulSet's
\* claim templates.  When a run that patches (no dry run, no --copy-only)
\* has completed, a claim template that used the origin class uses the
\* target class, and a template of another class is as it was.
C30_TemplateStorageClass ==
    (/\ variant = "move" /\ proc.status = "completed"
     /\ ~proc.dry_run /\ ~proc.copy_only)
        => \A u \in DOMAIN ctrl : ctrl[u].kind = "StatefulSet" =>
              ctrl[u].vct = {IF t.sc = OriginSc THEN [t EXCEPT !.sc = TargetSc] ELSE t :
                                t \in Workloads[u].vct}

\* C31: the reference patcher never mutates a bare pod.  No step of a
\* moveStorage invocation changes or deletes a pod that no controller owns
\* (so the recipe is never run either), and a step adds a manifest or a
\* recipe entry only when --export-pods was given.
C31_BarePodsUntouched ==
    [][(Running /\ variant = "move" /\ proc' # proc)
          => /\ \A u \in DOMAIN ctrl : ctrl[u].kind = "Pod" => ctrl'[u] = ctrl[u]
             /\ ~proc.export_pods
                  => /\ manifests'.files = manifests.files
                     /\ manifests'.script \subseteq manifests.script]_vars

\* A run with --export-pods has patched the controllers and written the
\* manifest and the recipe entry of the bare pod, which is as it was.
C31_Witness ==
    /\ variant = "move" /\ proc.status = "completed"
    /\ proc.export_pods /\ ~proc.dry_run /\ ~proc.copy_only
    /\ ctrl["pod"] = Workloads["pod"]
    /\ ctrl["dep"] # Workloads["dep"]
    /\ Workloads["pod"].name \in manifests.script
    /\ \E f \in manifests.files : f.pod = Workloads["pod"].name

\* C32: a record leaves the ledger only by a successful phase 2.  No step of
\* a phase-1 invocation drops a record of a migration in flight: a record
\* whose original is deleted already and whose temp volume is still there is
\* in the ledger after the step as well.
C32_PhaseOneKeepsRecords ==
    [][(Running /\ variant \in {"all", "safe"} /\ ~proc.recreate)
          => \A k \in DOMAIN ledger.content :
                (/\ ~pvc[ledger.content[k].old_name].exists
                 /\ pvc[ledger.content[k].temp_name].exists)
                    => /\ ledger'.exists
                       /\ \E j \in DOMAIN ledger'.content :
                             ledger'.content[j] = ledger.content[k]]_vars

\* C33: the exported manifest of a bare pod rewrites only the volume that
\* claimed the migrated volume.  In every manifest file, a volume that
\* claimed a volume of the origin class claims that volume's new name, and
\* every other claim-backed volume claims what it claimed in the pod.
C33_ManifestClaims ==
    variant = "move" =>
        \A f \in manifests.files : \A c \in DOMAIN f.claims :
            f.claims[c] = (IF c \in VolNames THEN new_pvc_name(c, TargetSc) ELSE c)

\* C34: a dry run leaves the state files as they are.  No step of a dry-run
\* invocation of a pivot variant, phase 1 or phase 2, creates, overwrites or
\* removes the ledger file or the scale-state file.
C34_DryRunFiles ==
    [][(Running /\ variant \in {"all", "safe"} /\ proc.dry_run)
          => (ledger' = ledger /\ scaleFile' = scaleFile)]_vars

\* A dry-run phase 2 of the safe variant has run to its end, restore pass
\* included, and the ledger and the scale-state file of the phase 1 before
\* it are still there.
C34_Witness ==
    /\ variant = "safe" /\ proc.status = "completed"
    /\ proc.recreate /\ proc.dry_run
    /\ ledger.exists /\ Len(ledger.content) = NumVols
    /\ scaleFile.exists /\ scaleFile.content # <<>>

====
